---- MODULE Spec2Model ----
(***************************************************************************)
(* StockChart.jsx: a d3 chart component.  The model has three layers:      *)
(*   - the pure computations (movingAverage, the bisectDate lookup of      *)
(*     generateCrosshair, the fill of the volume bars), as operators;      *)
(*   - one chart instance's drawing surface and its handlers (useEffect /  *)
(*     renderChart, mouseover / mouseout / mousemove, the window resize    *)
(*     listener of responsivefy);                                          *)
(*   - a page with two chart instances, which d3's document-wide           *)
(*     selections (d3.select('.overlay'), d3.selectAll('.lineLegend'),     *)
(*     d3.select(window).on('resize.<id>')) range over.                    *)
(* JavaScript array indices are 0-based and are kept so in the operators   *)
(* that take an index; a TLA+ sequence position is the index plus one.     *)
(***************************************************************************)
EXTENDS Integers, Sequences, FiniteSets, TLC

VARIABLES
    data,            \* per chart: the series the current svg's closures hold
    surface,         \* per chart: the elements under chartRef.current
    maLine,          \* per chart: the data bound to #movingAverageLine
    display,         \* per chart: style display of the g.focus
    current,         \* per chart: <<currentPoint>> the focus is translated to
    styled,          \* per chart: whether the overlay got its inline style
    replaced,        \* per chart: the last renderChart removed an earlier svg
    size,            \* per chart: the svg's width and height attributes
    listeners,       \* window listeners by typename: the chart whose resize it is
    containerWidth,  \* parseInt(container.style('width')) at this moment
    steps,           \* the statements of the last renderChart call, in order
    last,            \* the last event handled
    arg,             \* input of a pure function under check
    ret              \* its result, <<>> before the call

vars == <<data, surface, maLine, display, current, styled, replaced, size,
          listeners, containerWidth, steps, last, arg, ret>>

chartVars == <<data, surface, maLine, display, current, styled, replaced, size,
               listeners, containerWidth, steps, last>>

-----------------------------------------------------------------------------
\* Bounds of the inputs.
MaxLen == 4
MaxVolLen == 3
MaxChartLen == 2
MaxClose == 2
MaxVolume == 1
MaxWindow == 4
MaxDate == 5
InnerWidth == 300
InnerHeight == 200

\* Program constants.
Null == -1
MAWindow == 49
MarginTop == 50
MarginRight == 50
MarginBottom == 30
MarginLeft == 50
Rising == "#03a678"
Falling == "#c0392b"

Max(a, b) == IF a > b THEN a ELSE b

-----------------------------------------------------------------------------
\* Input series.  A record carries the fields the component reads.
Record(d, c, v) == [date |-> d, close |-> c, volume |-> v]

\* Series of length n over the given closes and volumes; the dates are
\* 1, 1 + gap, 1 + 2 gap, ..., strictly increasing.
SeriesOver(n, gap, closes, volumes) ==
    { [i \in 1..n |-> Record(1 + gap * (i - 1), f[i][1], f[i][2])] :
        f \in [1..n -> closes \X volumes] }

MASeries ==
    UNION { SeriesOver(n, 1, 1..MaxClose, {1}) : n \in 1..MaxLen }

VolSeries ==
    UNION { SeriesOver(n, 1, 1..MaxClose, {Null} \cup 0..MaxVolume) :
              n \in 1..MaxVolLen }

\* The k-th smallest element of a set of integers.
KthOf(S, k) == CHOOSE x \in S : Cardinality({y \in S : y < x}) = k - 1

DateSeries ==
    { [i \in 1..Cardinality(D) |-> Record(KthOf(D, i), 1, 1)] :
        D \in { E \in SUBSET (1..MaxDate) : E # {} /\ Cardinality(E) <= MaxLen } }

ChartSeries ==
    UNION { SeriesOver(n, 2, {1, MaxClose}, {0, MaxVolume}) :
              n \in 1..MaxChartLen }

PageSeries == { s \in ChartSeries : Len(s) = 1 }

-----------------------------------------------------------------------------
\* movingAverage

\* Array.prototype.slice(start, end) for 0 <= start
slice(total, start, end) == SubSeq(total, start + 1, end)

RECURSIVE reduceClose(_, _)
reduceClose(subset, a) ==
    IF subset = <<>> THEN a
    ELSE reduceClose(Tail(subset), a + Head(subset).close)

WindowStart_short(index, numberOfPricePoints) ==
    Max(0, index - numberOfPricePoints + 1)

WindowStart(index, numberOfPricePoints) ==
    Max(0, index - numberOfPricePoints)

\* sum / subset.length is a float; it is kept as the fraction num / den.
movingAverage(d, numberOfPricePoints) ==
    [k \in 1..Len(d) |->
        LET index == k - 1
            start == WindowStart(index, numberOfPricePoints)
            end == index
            subset == slice(d, start, end + 1)
            sum == reduceClose(subset, 0)
        IN  [date |-> d[k].date,
             average |-> [num |-> sum, den |-> Len(subset)]]]

-----------------------------------------------------------------------------
\* generateCrosshair: the lookup of the record nearest to a date

\* d3.bisector(d => d.date).left(a, x, lo, hi = a.length)
RECURSIVE bisectLeft(_, _, _, _)
bisectLeft(a, x, lo, hi) ==
    IF lo < hi
    THEN LET mid == (lo + hi) \div 2
         IN  IF a[mid + 1].date < x
             THEN bisectLeft(a, x, mid + 1, hi)
             ELSE bisectLeft(a, x, lo, mid)
    ELSE lo

bisectDate(a, x, lo) == bisectLeft(a, x, lo, Len(a))

PicksLater_tie(correspondingDate, d0, d1) ==
    correspondingDate - d0.date >= d1.date - correspondingDate

PicksLater(correspondingDate, d0, d1) ==
    correspondingDate - d0.date > d1.date - correspondingDate

currentPointOf(d, correspondingDate) ==
    LET i == bisectDate(d, correspondingDate, 1)
    IN  IF i = 0 THEN d[1]
        ELSE IF i >= Len(d) THEN d[Len(d)]
        ELSE LET d0 == d[i]
                 d1 == d[i + 1]
             IN  IF PicksLater(correspondingDate, d0, d1) THEN d1 ELSE d0

-----------------------------------------------------------------------------
\* volume bars

Plotted(d) == d.volume # Null /\ d.volume # 0

volDataOf(d) == SelectSeq(d, Plotted)

\* the fill of bar i (0-based); volData[i - 1] is position i
PrevHigher_eq(prev, d) == prev.close >= d.close

PrevHigher(prev, d) == prev.close > d.close

volFill(volData, i) ==
    IF i = 0 THEN Rising
    ELSE IF PrevHigher(volData[i], volData[i + 1]) THEN Falling ELSE Rising

volBars(d) ==
    LET volData == volDataOf(d)
    IN  [k \in 1..Len(volData) |-> volFill(volData, k - 1)]

-----------------------------------------------------------------------------
\* The page: two StockChart instances, A before B in the document.
Charts == {"A", "B"}
DocumentOrder == <<"A", "B">>

EmptySurface ==
    [svg |-> 0, priceChart |-> 0, movingAverageLine |-> 0, focus |-> 0,
     prims |-> 0, overlay |-> 0, vol |-> <<>>, lineLegend |-> <<>>]

\* d3.select(chartRef.current).selectAll('svg').remove()
ClearSurface_keep(s) == s

ClearSurface(s) == EmptySurface

\* the svg's width attribute and parseInt of its computed height, which
\* responsivefy reads for the aspect ratio
width == InnerWidth - MarginLeft - MarginRight
styleWidth == width + MarginLeft + MarginRight
styleHeight == (InnerHeight * 85) \div 100

\* Math.round(p / q) for p >= 0, q > 0
Round(p, q) == (2 * p + q) \div (2 * q)

\* resize of responsivefy: aspect == styleWidth / styleHeight
resize(targetWidth) ==
    [width |-> targetWidth,
     height |-> Round(targetWidth * styleHeight, styleWidth)]

\* container.attr('id') of <div className="chart">, which has no id
ContainerId(c) == "null"
ResizeKey(c) == "resize." \o ContainerId(c)
TypeNames == { ResizeKey(c) : c \in Charts }

ContainerWidths == {0, 200, InnerWidth}

\* the first chart of the document that holds an element of class overlay
FirstOverlay(surf) ==
    LET i == CHOOSE k \in 1..Len(DocumentOrder) :
                 /\ surf[DocumentOrder[k]].overlay > 0
                 /\ \A j \in 1..(k - 1) : surf[DocumentOrder[j]].overlay = 0
    IN  DocumentOrder[i]

d3min(d) == CHOOSE m \in { d[i].date : i \in 1..Len(d) } :
                \A i \in 1..Len(d) : m <= d[i].date
d3max(d) == CHOOSE m \in { d[i].date : i \in 1..Len(d) } :
                \A i \in 1..Len(d) : m >= d[i].date

\* xScale.invert(mouse[0]) for a pointer on the overlay, 0 <= mouse[0] <= width
PointerDates(d) == IF Len(d) = 0 THEN {} ELSE d3min(d)..d3max(d)

\* the statements of renderChart in the order the function runs them
RenderSteps ==
    << "clear", "xScale", "yScale", "svg", "responsivefy", "axes",
       "priceChart", "movingAverageLine", "focus", "overlay", "style",
       "yVolumeScale", "vol" >>

\* Object.keys(data[0]) for the records of the model
ObjectKeys(rec) == <<"date", "close", "volume">>

legendText(d, currentData) ==
    IF d = "date"
    THEN [key |-> d, format |-> "toLocaleDateString", value |-> currentData[d]]
    ELSE IF d \in {"high", "low", "open", "close"}
    THEN [key |-> d, format |-> "toFixed(2)", value |-> currentData[d]]
    ELSE [key |-> d, format |-> "String", value |-> currentData[d]]

\* d3.selectAll('.lineLegend').remove(), on one chart's surface
RemoveLegends_none(s) == s

RemoveLegends(s) == [s EXCEPT !.lineLegend = <<>>]

\* svg.selectAll('.lineLegend').data(legendKeys).enter().append('g') ... text:
\* only the keys beyond the elements already there enter
enterLegend(existing, d0, currentData) ==
    LET legendKeys == ObjectKeys(d0)
        lines == [k \in 1..Len(legendKeys) |->
                     legendText(legendKeys[k], currentData)]
    IN  existing \o SubSeq(lines, Len(existing) + 1, Len(legendKeys))

Event(e, c) == [ev |-> e, chart |-> c]

InitChart ==
    /\ data = [c \in Charts |-> <<>>]
    /\ surface = [c \in Charts |-> EmptySurface]
    /\ maLine = [c \in Charts |-> <<>>]
    /\ display = [c \in Charts |-> "none"]
    /\ current = [c \in Charts |-> <<>>]
    /\ styled = [c \in Charts |-> [overlay |-> FALSE, focusLines |-> FALSE]]
    /\ replaced = [c \in Charts |-> FALSE]
    /\ size = [c \in Charts |-> [width |-> 0, height |-> 0]]
    /\ listeners = [t \in TypeNames |-> "none"]
    /\ containerWidth = InnerWidth
    /\ steps = <<>>
    /\ last = Event("init", "none")

renderChart(c, d) ==
    LET cleared == ClearSurface(surface[c])
        drawn == [svg |-> cleared.svg + 1,
                  priceChart |-> cleared.priceChart + 1,
                  movingAverageLine |-> cleared.movingAverageLine + 1,
                  focus |-> cleared.focus + 1,
                  prims |-> cleared.prims + 3,
                  overlay |-> cleared.overlay + 1,
                  vol |-> cleared.vol \o volBars(d),
                  lineLegend |-> cleared.lineLegend]
        surf == [surface EXCEPT ![c] = drawn]
        fresh == [styled EXCEPT ![c] = [overlay |-> FALSE, focusLines |-> FALSE]]
        first == FirstOverlay(surf)
    IN  /\ surface' = surf
        /\ data' = [data EXCEPT ![c] = d]
        /\ maLine' = [maLine EXCEPT ![c] = movingAverage(d, MAWindow)]
        /\ display' = [display EXCEPT ![c] = "none"]
        /\ current' = [current EXCEPT ![c] = <<>>]
        /\ styled' = [o \in Charts |->
                        [overlay |-> fresh[o].overlay \/ o = first,
                         focusLines |-> surf[o].focus > 0]]
        /\ replaced' = [replaced EXCEPT ![c] = surface[c].svg > 0]
        /\ size' = [size EXCEPT ![c] = resize(containerWidth)]
        /\ listeners' = [listeners EXCEPT ![ResizeKey(c)] = c]
        /\ steps' = RenderSteps
        /\ last' = Event("renderChart", c)
        /\ UNCHANGED <<containerWidth, arg, ret>>

\* props.data: null / undefined, or an array
Props(S) ==
    { [isArray |-> FALSE, arr |-> <<>>] }
        \cup { [isArray |-> TRUE, arr |-> s] : s \in S \cup {<<>>} }

useEffect(c, p) ==
    IF p.isArray /\ Len(p.arr) > 0
    THEN renderChart(c, p.arr)
    ELSE /\ last' = Event("noData", c)
         /\ UNCHANGED <<data, surface, maLine, display, current, styled,
                        replaced, size, listeners, containerWidth, steps,
                        arg, ret>>

mouseover(c) ==
    /\ surface[c].overlay > 0
    /\ display' = [display EXCEPT ![c] = "shown"]
    /\ last' = Event("mouseover", c)
    /\ UNCHANGED <<data, surface, maLine, current, styled, replaced, size,
                   listeners, containerWidth, steps, arg, ret>>

mouseout(c) ==
    /\ surface[c].overlay > 0
    /\ display' = [display EXCEPT ![c] = "none"]
    /\ last' = Event("mouseout", c)
    /\ UNCHANGED <<data, surface, maLine, current, styled, replaced, size,
                   listeners, containerWidth, steps, arg, ret>>

generateCrosshair(c, correspondingDate) ==
    /\ surface[c].overlay > 0
    /\ LET currentPoint == currentPointOf(data[c], correspondingDate)
           removed == [o \in Charts |-> RemoveLegends(surface[o])]
       IN  /\ current' = [current EXCEPT ![c] = <<currentPoint>>]
           /\ surface' = [removed EXCEPT ![c].lineLegend =
                             enterLegend(@, data[c][1], currentPoint)]
    /\ last' = Event("mousemove", c)
    /\ UNCHANGED <<data, maLine, display, styled, replaced, size, listeners,
                   containerWidth, steps, arg, ret>>

\* the window's resize event: every registered listener runs its resize
windowResize(targetWidth) ==
    /\ containerWidth' = targetWidth
    /\ size' = [c \in Charts |->
                  IF \E t \in TypeNames : listeners[t] = c
                  THEN resize(targetWidth) ELSE size[c]]
    /\ last' = Event("resize", "window")
    /\ UNCHANGED <<data, surface, maLine, display, current, styled, replaced,
                   listeners, steps, arg, ret>>

ChartNext(C, S) ==
    \/ \E c \in C : \E p \in Props(S) : useEffect(c, p)
    \/ \E c \in C : mouseover(c)
    \/ \E c \in C : mouseout(c)
    \/ \E c \in C : \E x \in PointerDates(data[c]) : generateCrosshair(c, x)
    \/ \E w \in ContainerWidths : windowResize(w)

Idle == arg = [fn |-> "none"] /\ ret = <<>>

\* the page with both charts
Init == InitChart /\ Idle
Next == ChartNext(Charts, PageSeries)
Spec == Init /\ [][Next]_vars

\* a page with one chart
NextChart == ChartNext({"A"}, ChartSeries)
SpecChart == Init /\ [][NextChart]_vars

-----------------------------------------------------------------------------
\* The pure computations, each applied once to an input drawn by Init.

InitMA ==
    /\ InitChart
    /\ arg \in { [fn |-> "movingAverage", data |-> s, w |-> w] :
                   s \in MASeries, w \in 0..MaxWindow }
    /\ ret = <<>>

callMovingAverage ==
    /\ arg.fn = "movingAverage"
    /\ ret = <<>>
    /\ ret' = << movingAverage(arg.data, arg.w) >>
    /\ UNCHANGED <<arg, chartVars>>

SpecMA == InitMA /\ [][callMovingAverage]_vars

InitLocate ==
    /\ InitChart
    /\ arg \in { [fn |-> "currentPoint", data |-> s, x |-> x] :
                   s \in DateSeries, x \in 0..(MaxDate + 1) }
    /\ ret = <<>>

callCurrentPoint ==
    /\ arg.fn = "currentPoint"
    /\ ret = <<>>
    /\ ret' = << currentPointOf(arg.data, arg.x) >>
    /\ UNCHANGED <<arg, chartVars>>

SpecLocate == InitLocate /\ [][callCurrentPoint]_vars

InitVol ==
    /\ InitChart
    /\ arg \in { [fn |-> "vol", data |-> s] : s \in VolSeries }
    /\ ret = <<>>

callVolBars ==
    /\ arg.fn = "vol"
    /\ ret = <<>>
    /\ ret' = << volBars(arg.data) >>
    /\ UNCHANGED <<arg, chartVars>>

SpecVol == InitVol /\ [][callVolBars]_vars

-----------------------------------------------------------------------------
\* Properties.

Abs(x) == IF x < 0 THEN 0 - x ELSE x

\* the sum of close over positions lo..hi of d
RECURSIVE SumCloses(_, _, _)
SumCloses(d, lo, hi) ==
    IF lo > hi THEN 0 ELSE d[hi].close + SumCloses(d, lo, hi - 1)

\* C1: movingAverage(data, w) has the length of data, keeps each date, and
\* its average at index i is the mean of close over max(0, i-w)..i, a window
\* of i+1 records for i < w and of w+1 records for i >= w; so the first
\* average is the first close.
MovingAverageIsWindowMean ==
    (arg.fn = "movingAverage" /\ ret # <<>>) =>
        LET out == ret[1]
            d == arg.data
            n == Len(d)
        IN  /\ Len(out) = n
            /\ \A i \in 0..(n - 1) :
                 LET lo == Max(0, i - arg.w)
                     count == IF i < arg.w THEN i + 1 ELSE arg.w + 1
                     avg == out[i + 1].average
                 IN  /\ out[i + 1].date = d[i + 1].date
                     /\ avg.den = count
                     /\ avg.num * count = SumCloses(d, lo + 1, i + 1) * avg.den
            /\ out[1].average.num = d[1].close * out[1].average.den

\* a call whose series is longer than the window plus one and not constant:
\* it has both the growing and the full windows
MovingAverageWitness ==
    /\ arg.fn = "movingAverage" /\ ret # <<>>
    /\ arg.w >= 1 /\ Len(arg.data) > arg.w + 1
    /\ arg.data[1].close # arg.data[2].close
    /\ ret[1][Len(arg.data)].average.den = arg.w + 1

\* C2: the record generateCrosshair selects for a date is the one at the
\* least absolute distance from it, the earlier one on a tie; a date before
\* the first record selects the first and a date after the last the last.
NearestPointSelected ==
    (arg.fn = "currentPoint" /\ ret # <<>>) =>
        LET d == arg.data
            n == Len(d)
            r == ret[1]
            Dist(j) == Abs(d[j].date - arg.x)
        IN  /\ \E k \in 1..n :
                 /\ d[k] = r
                 /\ \A j \in 1..n :
                      Dist(k) < Dist(j) \/ (Dist(k) = Dist(j) /\ k <= j)
            /\ arg.x < d[1].date => r = d[1]
            /\ arg.x > d[n].date => r = d[n]

\* a date half way between two neighbours, resolved to the earlier one
NearestPointWitness ==
    /\ arg.fn = "currentPoint" /\ ret # <<>>
    /\ \E i \in 1..(Len(arg.data) - 1) :
         /\ arg.data[i].date < arg.x /\ arg.x < arg.data[i + 1].date
         /\ arg.x - arg.data[i].date = arg.data[i + 1].date - arg.x
         /\ ret[1] = arg.data[i]

\* the positions of d whose volume is neither null nor 0
PlottedPositions(d) == { i \in 1..Len(d) : d[i].volume \notin {Null, 0} }

\* C3: there is one bar per record whose volume is neither null nor 0, in
\* series order; bar 0 is the rising colour and bar i > 0 is the falling colour
\* exactly when the close of the previous plotted record is strictly greater;
\* no other colour occurs.
VolumeBarColours ==
    (arg.fn = "vol" /\ ret # <<>>) =>
        LET d == arg.data
            P == PlottedPositions(d)
            fills == ret[1]
        IN  /\ Len(fills) = Cardinality(P)
            /\ \A k \in 1..Len(fills) : fills[k] \in {Rising, Falling}
            /\ Len(fills) > 0 => fills[1] = Rising
            /\ \A k \in 2..Len(fills) :
                 fills[k] = Falling <=>
                     d[KthOf(P, k - 1)].close > d[KthOf(P, k)].close

\* a series with an unplotted record between two plotted ones, where the
\* previous plotted close and the previous record's close disagree
VolumeBarWitness ==
    /\ arg.fn = "vol" /\ ret # <<>>
    /\ Len(arg.data) = 3
    /\ PlottedPositions(arg.data) = {1, 3}
    /\ arg.data[1].close > arg.data[3].close
    /\ arg.data[2].close <= arg.data[3].close
    /\ ret[1] = <<Rising, Falling>>

\* C4: right after a renderChart call the chart holds one svg, one price path,
\* one moving-average path, one crosshair group with its three primitives, one
\* overlay, one bar per plotted record and no legend line, whatever was
\* rendered or pointed at before.
RenderDoesNotAccumulate ==
    \A c \in Charts :
        last = Event("renderChart", c) =>
            /\ surface[c].svg = 1
            /\ surface[c].priceChart = 1
            /\ surface[c].movingAverageLine = 1
            /\ surface[c].focus = 1
            /\ surface[c].prims = 3
            /\ surface[c].overlay = 1
            /\ Len(surface[c].vol) = Cardinality(PlottedPositions(data[c]))
            /\ surface[c].lineLegend = <<>>

\* a render that replaced an earlier svg, of a series with an unplotted record
RenderAgainWitness ==
    /\ last = Event("renderChart", "A")
    /\ replaced["A"]
    /\ Len(surface["A"].vol) > 0
    /\ Len(surface["A"].vol) < Len(data["A"])

\* C5: the crosshair is shown exactly when the last of the render and pointer
\* events of the chart was a pointer-enter or a pointer-move.
CrosshairShownAfterEnterOrMove ==
    \A c \in Charts :
        (last.chart = c
           /\ last.ev \in {"renderChart", "mouseover", "mousemove", "mouseout"})
        => (display[c] = "shown" <=> last.ev \in {"mouseover", "mousemove"})

\* C6: after a null or empty series arrives the chart shows no path, bar or
\* crosshair.
NoDataShowsEmptyChart ==
    \A c \in Charts :
        last = Event("noData", c) =>
            /\ surface[c].priceChart = 0
            /\ surface[c].movingAverageLine = 0
            /\ surface[c].vol = <<>>
            /\ surface[c].focus = 0

HasListener(c) == \E t \in TypeNames : listeners[t] = c

\* C7: an event on one chart leaves the other chart's elements, styling,
\* legend, crosshair visibility and resize listener unchanged.
ChartsAreIsolated ==
    [][\A c \in Charts :
          last'.chart = c =>
              \A o \in Charts \ {c} :
                  /\ surface'[o] = surface[o]
                  /\ styled'[o] = styled[o]
                  /\ display'[o] = display[o]
                  /\ current'[o] = current[o]
                  /\ HasListener(o)' = HasListener(o)]_vars

ScaleSteps == {"xScale", "yScale", "yVolumeScale"}
DrawSteps == {"priceChart", "movingAverageLine", "vol"}
CrosshairSteps == {"focus", "overlay"}

\* C8: in a renderChart call every scale is computed before any path or bar is
\* drawn, and every path and bar is drawn before the crosshair is attached.
ScalesThenDrawingThenCrosshair ==
    \A i, j \in 1..Len(steps) :
        /\ (steps[i] \in ScaleSteps /\ steps[j] \in DrawSteps) => i < j
        /\ (steps[i] \in DrawSteps /\ steps[j] \in CrosshairSteps) => i < j

\* C9: after a pointer-move the chart holds one legend line per field of a
\* record, each showing the selected record's value of that field, the
\* crosshair is at that record, and the paths, bars and crosshair primitives
\* are those of the render.
PointerMoveReplaces ==
    \A c \in Charts :
        last = Event("mousemove", c) =>
            LET legend == surface[c].lineLegend
            IN  /\ Len(legend) = Cardinality(DOMAIN data[c][1])
                /\ { legend[k].key : k \in 1..Len(legend) } = DOMAIN data[c][1]
                /\ Len(current[c]) = 1
                /\ \A k \in 1..Len(legend) :
                     legend[k].value = current[c][1][legend[k].key]
                /\ surface[c].svg = 1
                /\ surface[c].priceChart = 1
                /\ surface[c].movingAverageLine = 1
                /\ surface[c].focus = 1
                /\ surface[c].prims = 3
                /\ Len(surface[c].vol) = Cardinality(PlottedPositions(data[c]))

\* a pointer-move that selected the second record of a series
PointerMoveWitness ==
    /\ last = Event("mousemove", "A")
    /\ Len(data["A"]) = 2
    /\ current["A"] = << data["A"][2] >>
    /\ Len(surface["A"].lineLegend) = 3

\* C10: a resize event that finds the container 0 wide leaves the svg's width
\* and height as they were.
ResizeToZeroIsSkipped ==
    [][(last' = Event("resize", "window") /\ containerWidth' = 0)
           => size' = size]_vars

=============================================================================
